---- MODULE Spec2Model ----
(***************************************************************************)
(* Maximum cardinality matching in general graphs (CardinalityMatching.py, *)
(* Edmonds' blossom contraction).  The driver matching(G, initialMatching) *)
(* copies the initial matching, runs the greedy pass and then repeats      *)
(* augment() until a phase fails.  One action per driver / main-loop step. *)
(***************************************************************************)
EXTENDS Integers, Sequences, FiniteSets, TLC

\* Number of graph vertices of the general specification.
N == 4

\* Largest n of the complete graphs K_n, paths P_n and odd cycles C_n among the
\* named instances.
MaxNamed == 5

\* Stands for "no vertex": the topless goal object of alternatingPath.
topless == -1

VARIABLES
  G,            \* the graph: G.verts lists the vertices, G.adj[v] the neighbors
  order,        \* iteration orders of G's containers: "asc", "desc" or "any"
  store,        \* the dictionaries alive across a call, by object
  initRef,      \* which object the parameter initialMatching is bound to
  matchRef,     \* which object the local name matching is bound to
  argKind,      \* how the current call was made
  pc,           \* position of the driver
  gi,           \* greedy pass: vertices of G still to visit
  leader,       \* union-find of the running phase
  S, T, base,   \* dictionaries of the running phase
  unexplored,   \* list of the running phase
  current,      \* index into unexplored
  curV,         \* v of the main loop
  todo,         \* neighbors of curV still to be visited by 'for w in G[v]'
  curW,         \* w of the S-S edge being augmented
  matching0,    \* the matching when the running phase started
  greedyPairs,  \* number of pairs after the greedy pass of the running call
  nAugmented,   \* number of phases of the running call that returned true
  nesting       \* per vertex, the number of blossoms of the running phase around it

vars == <<G, order, store, initRef, matchRef, argKind, pc, gi, leader, S, T,
          base, unexplored, current, curV, todo, curW, matching0, greedyPairs,
          nAugmented, nesting>>

phaseVars == <<leader, S, T, base, unexplored, current, curV, todo, curW, nesting>>

----------------------------------------------------------------------------
(* Python dictionaries are functions with a finite domain. *)

EmptyDict == <<>>

Put(d, k, x) == [y \in (DOMAIN d) \cup {k} |-> IF y = k THEN x ELSE d[y]]

Reverse(s) == [i \in 1..Len(s) |-> s[Len(s) + 1 - i]]

RECURSIVE SeqOfSet(_)
\* the elements of the set s as an ascending list
SeqOfSet(s) ==
  IF s = {} THEN <<>>
  ELSE LET x == CHOOSE y \in s : \A z \in s : y <= z
       IN <<x>> \o SeqOfSet(s \ {x})

RECURSIVE Perms(_)
\* all lists that enumerate the set s once
Perms(s) ==
  IF s = {} THEN {<<>>}
  ELSE UNION {{<<x>> \o p : p \in Perms(s \ {x})} : x \in s}

\* the orders in which a container holding the set s may be iterated:
\* ascending only, or every order
IterOrders(s, o) == IF o = "asc" THEN {SeqOfSet(s)} ELSE Perms(s)

\* the elements that an iteration may yield first among the elements s that
\* are left
First(s, o) == IF o = "asc" THEN {x \in s : \A y \in s : x <= y} ELSE s

----------------------------------------------------------------------------
(* Graphs and matchings. *)

\* adj is the adjacency of a symmetric, loop-free graph on the vertices vs
IsGraph(adj, vs) ==
  \A v \in vs : v \notin adj[v] /\ adj[v] \subseteq vs /\ \A w \in adj[v] : v \in adj[w]

\* m is a matching of the graph adj
IsMatching(m, adj) ==
  /\ DOMAIN m \subseteq DOMAIN adj
  /\ \A v \in DOMAIN m : /\ m[v] \in adj[v]
                         /\ m[v] # v
                         /\ m[v] \in DOMAIN m
                         /\ m[m[v]] = v

Pairs(m) == Cardinality(DOMAIN m) \div 2

\* the graph on vertices 0..n-1 with the edge set es
GraphOf(n, es) ==
  [verts |-> 0..(n - 1),
   adj |-> [v \in 0..(n - 1) |-> {w \in 0..(n - 1) : {v, w} \in es}]]

\* every symmetric, loop-free graph on the vertices 0..n-1
Graphs(n) ==
  {GraphOf(n, es) : es \in SUBSET {e \in SUBSET (0..(n - 1)) : Cardinality(e) = 2}}

Complete(n) == GraphOf(n, {e \in SUBSET (0..(n - 1)) : Cardinality(e) = 2})

Path(n) == GraphOf(n, {{v, v + 1} : v \in 0..(n - 2)})

Cycle(n) == GraphOf(n, {{v, (v + 1) % n} : v \in 0..(n - 1)})

Bowtie == GraphOf(5, {{0, 1}, {0, 2}, {1, 2}, {2, 3}, {2, 4}, {3, 4}})

Star == GraphOf(6, {{0, w} : w \in 1..5})

NamedGraphs ==
  {Complete(n) : n \in 2..MaxNamed} \cup {Path(n) : n \in 2..MaxNamed}
    \cup {Cycle(n) : n \in {k \in 3..MaxNamed : k % 2 = 1}} \cup {Bowtie, Star}

\* graphs in which a triangle blossom is absorbed by a larger one
\* and a second root hangs off the outer blossom; in the second of six vertices the
\* triangle 1-2-4 is absorbed by the pentagon through 0 and 3 before the
\* edge 0-5 augments, and in the eight-vertex one the augmenting path runs
\* through a blossom inside a blossom
NestedGraphs ==
  {GraphOf(6, {{0, 1}, {0, 2}, {1, 2}, {2, 3}, {3, 4}, {4, 1}, {e, 5}}) : e \in {1, 3, 4}}
    \cup {GraphOf(6, {{0, 1}, {0, 2}, {1, 2}, {2, 3}, {3, 4}, {4, 0}, {3, 5}, {1, 5}}),
          GraphOf(6, {{0, 3}, {0, 4}, {0, 5}, {1, 2}, {1, 3}, {1, 4}, {2, 4}}),
          GraphOf(8, {{0, 1}, {0, 4}, {0, 5}, {1, 7}, {2, 3}, {2, 4}, {2, 6}, {3, 7},
                      {4, 6}})}

\* graphs in which an odd cycle hangs from a stem 0-1-2: the triangle and
\* the pentagon at vertex 2, the triangle with a second stem, and a pentagon
\* whose vertex 4 carries a branch 4-6-8 that leads back into it by 8-3
StemGraphs ==
  {GraphOf(5, {{0, 1}, {1, 2}, {2, 3}, {3, 4}, {2, 4}}),
   GraphOf(7, {{0, 1}, {1, 2}, {2, 3}, {3, 4}, {4, 5}, {5, 6}, {6, 2}}),
   GraphOf(7, {{0, 1}, {1, 2}, {2, 3}, {3, 4}, {2, 4}, {4, 5}, {5, 6}}),
   GraphOf(9, {{0, 1}, {1, 2}, {2, 3}, {3, 4}, {2, 5}, {5, 7}, {4, 7}, {4, 6},
               {6, 8}, {8, 3}})}

RECURSIVE MatchingsOn(_, _)
\* all matchings of adj that use only vertices of vs
MatchingsOn(adj, vs) ==
  IF vs = {} THEN {EmptyDict}
  ELSE LET v == CHOOSE x \in vs : TRUE
           without == MatchingsOn(adj, vs \ {v})
           with(w) == {Put(Put(m, v, w), w, v) : m \in MatchingsOn(adj, vs \ {v, w})}
       IN without \cup UNION {with(w) : w \in adj[v] \cap vs}

----------------------------------------------------------------------------
(* The disjoint-set structure 'leader': a map from element to representative. *)

\* UnionFind(): every element is (implicitly) a singleton set
UnionFind(vs) == [x \in vs |-> x]

\* the representatives of the sets that contain the elements of the list objs
Roots(l, objs) == {l[objs[i]] : i \in 1..Len(objs)}

\* leader.union(*objs), with r the one of the previous representatives that
\* becomes canonical
Union(l, objs, r) == [x \in DOMAIN l |-> IF l[x] \in Roots(l, objs) THEN r ELSE l[x]]

----------------------------------------------------------------------------
(* The name matching denotes the dictionary the local variable is bound to. *)

matching == store[matchRef]

initialMatching == store[initRef]

\* recursion budget of the loops of one phase; no loop of a run on a forest
\* of at most |V| vertices needs more
Fuel == 2 * Cardinality(G.verts) + 2

Result(st, val) == [status |-> st, val |-> val]

----------------------------------------------------------------------------
(* Lines 27-30: the copy of the initial matching. *)

\* faulty variant of NewMatchingRef: 'matching = initialMatching', no new dictionary
NewMatchingRefAlias(ref) == ref

\* line 28, matching = {}: the object the local name matching is bound to
NewMatchingRef(ref) == "local"

\* faulty variant of CopyInitial: the copying loop of lines 29-30 is missing
CopyInitialEmpty(st, ref) == [st EXCEPT !["local"] = EmptyDict]

\* the dictionaries after 'matching = {}' and the copying loop
CopyInitial(st, ref) ==
  [st EXCEPT !["local"] = [x \in DOMAIN st[ref] |-> st[ref][x]]]

\* faulty variant of GreedyVertex: the break of line 40 is missing, every
\* unmatched neighbor of v is written and v keeps the last of them
GreedyVertexNoBreak(m, v, w) ==
  LET un == G.adj[v] \ DOMAIN m
      last == CHOOSE x \in un : \A y \in un : y <= x
  IN [y \in DOMAIN m \cup un \cup {v} |->
        IF y = v THEN last ELSE IF y \in un THEN v ELSE m[y]]

\* faulty variant of GreedyVertex: line 39 is missing, only matching[v] is written
GreedyVertexOneWay(m, v, w) == Put(m, v, w)

(* Lines 35-40: one iteration of the greedy loop, for vertex v; w is the     *)
(* first neighbor of v, in iteration order, that is not matched.            *)
GreedyVertex(m, v, w) == Put(Put(m, v, w), w, v)

----------------------------------------------------------------------------
(* Subroutines of augment(). *)

\* step(path, head) of ss, lines 152-159
step(l, s, t, path, head) ==
  LET h == l[head] IN
  IF h \notin DOMAIN s THEN Result("KeyError", [path |-> path, head |-> h])
  ELSE LET parent == l[s[h]] IN
       IF parent = h THEN Result("ok", [path |-> path, head |-> h])
       ELSE IF parent \notin DOMAIN t
            THEN Result("KeyError", [path |-> path, head |-> h])
            ELSE LET nh == l[t[parent]]
                 IN Result("ok", [path |-> Put(Put(path, h, parent), parent, nh),
                                  head |-> nh])

RECURSIVE ssLoopEitherRoot(_, _, _, _, _, _, _, _)
\* faulty variant of ssLoop: line 169 reads 'or', one walk at a root is enough
ssLoopEitherRoot(l, s, t, path1, head1, path2, head2, fuel) ==
  IF fuel = 0 THEN Result("diverge", topless)
  ELSE
  LET s1 == step(l, s, t, path1, head1)
      s2 == step(l, s, t, path2, head2)
      h1 == s1.val.head
      h2 == s2.val.head
      roots == IF h1 \notin DOMAIN s THEN "KeyError"
               ELSE IF l[s[h1]] = h1 THEN "yes"
               ELSE IF h2 \notin DOMAIN s THEN "KeyError"
               ELSE IF l[s[h2]] = h2 THEN "yes" ELSE "no"
  IN IF s1.status # "ok" THEN Result(s1.status, topless)
     ELSE IF s2.status # "ok" THEN Result(s2.status, topless)
     ELSE IF h1 = h2 THEN Result("blossom", h1)
     ELSE IF roots = "KeyError" THEN Result("KeyError", topless)
     ELSE IF roots = "yes" THEN Result("augment", topless)
     ELSE IF h1 \in DOMAIN s2.val.path THEN Result("blossom", h1)
     ELSE IF h2 \in DOMAIN s1.val.path THEN Result("blossom", h2)
     ELSE ssLoopEitherRoot(l, s, t, s1.val.path, h1, s2.val.path, h2, fuel - 1)

RECURSIVE ssLoopWrongHead(_, _, _, _, _, _, _, _)
\* faulty variant of ssLoop: lines 174 and 178 pass the other walk's head
ssLoopWrongHead(l, s, t, path1, head1, path2, head2, fuel) ==
  IF fuel = 0 THEN Result("diverge", topless)
  ELSE
  LET s1 == step(l, s, t, path1, head1)
      s2 == step(l, s, t, path2, head2)
      h1 == s1.val.head
      h2 == s2.val.head
      roots == IF h1 \notin DOMAIN s THEN "KeyError"
               ELSE IF l[s[h1]] # h1 THEN "no"
               ELSE IF h2 \notin DOMAIN s THEN "KeyError"
               ELSE IF l[s[h2]] = h2 THEN "yes" ELSE "no"
  IN IF s1.status # "ok" THEN Result(s1.status, topless)
     ELSE IF s2.status # "ok" THEN Result(s2.status, topless)
     ELSE IF h1 = h2 THEN Result("blossom", h1)
     ELSE IF roots = "KeyError" THEN Result("KeyError", topless)
     ELSE IF roots = "yes" THEN Result("augment", topless)
     ELSE IF h1 \in DOMAIN s2.val.path THEN Result("blossom", h2)
     ELSE IF h2 \in DOMAIN s1.val.path THEN Result("blossom", h1)
     ELSE ssLoopWrongHead(l, s, t, s1.val.path, h1, s2.val.path, h2, fuel - 1)

RECURSIVE ssLoop(_, _, _, _, _, _, _, _)
\* the loop of ss, lines 161-179: what the S-S edge turns out to be
ssLoop(l, s, t, path1, head1, path2, head2, fuel) ==
  IF fuel = 0 THEN Result("diverge", topless)
  ELSE
  LET s1 == step(l, s, t, path1, head1)
      s2 == step(l, s, t, path2, head2)
      h1 == s1.val.head
      h2 == s2.val.head
      \* leader[S[head1]] == head1 and leader[S[head2]] == head2
      roots == IF h1 \notin DOMAIN s THEN "KeyError"
               ELSE IF l[s[h1]] # h1 THEN "no"
               ELSE IF h2 \notin DOMAIN s THEN "KeyError"
               ELSE IF l[s[h2]] = h2 THEN "yes" ELSE "no"
  IN IF s1.status # "ok" THEN Result(s1.status, topless)
     ELSE IF s2.status # "ok" THEN Result(s2.status, topless)
     ELSE IF h1 = h2 THEN Result("blossom", h1)
     ELSE IF roots = "KeyError" THEN Result("KeyError", topless)
     ELSE IF roots = "yes" THEN Result("augment", topless)
     ELSE IF h1 \in DOMAIN s2.val.path THEN Result("blossom", h1)
     ELSE IF h2 \in DOMAIN s1.val.path THEN Result("blossom", h2)
     ELSE ssLoop(l, s, t, s1.val.path, h1, s2.val.path, h2, fuel - 1)

\* faulty variant of ss: a common ancestor is found but no blossom is formed
ssNoBlossom(l, s, t, v, w, fuel) ==
  IF l[v] = l[w] THEN Result("same", topless)
  ELSE LET r == ssLoop(l, s, t, EmptyDict, v, EmptyDict, w, fuel)
       IN IF r.status = "blossom" THEN Result("same", topless) ELSE r

\* faulty variant of ss: line 144 compares v and w in place of their leaders
ssSameVertex(l, s, t, v, w, fuel) ==
  IF v = w THEN Result("same", topless)
  ELSE ssLoop(l, s, t, EmptyDict, v, EmptyDict, w, fuel)

\* faulty variant of ss: a common ancestor in one tree is taken for two roots
\* and addMatch is called
ssBlossomAugments(l, s, t, v, w, fuel) ==
  IF l[v] = l[w] THEN Result("same", topless)
  ELSE LET r == ssLoop(l, s, t, EmptyDict, v, EmptyDict, w, fuel)
       IN IF r.status = "blossom" THEN Result("augment", topless) ELSE r

\* ss(v, w), lines 139-179, up to the call of blossom or addMatch
ss(l, s, t, v, w, fuel) ==
  IF l[v] = l[w] THEN Result("same", topless)
  ELSE ssLoop(l, s, t, EmptyDict, v, EmptyDict, w, fuel)

RECURSIVE findSideLoopNoRequeue(_, _, _, _, _, _, _, _, _)
\* faulty variant of findSideLoop: line 88 is missing, the T-nodes absorbed
\* into the blossom are not appended to unexplored
findSideLoopNoRequeue(l, s, t, a, b, path, bs, un, fuel) ==
  IF path[Len(path)] = a THEN Result("ok", [path |-> path, base |-> bs, unexplored |-> un])
  ELSE IF fuel = 0 THEN Result("diverge", [path |-> path, base |-> bs, unexplored |-> un])
  ELSE IF path[Len(path)] \notin DOMAIN s
       THEN Result("KeyError", [path |-> path, base |-> bs, unexplored |-> un])
  ELSE LET tnode == s[path[Len(path)]] IN
       IF tnode \notin DOMAIN t
       THEN Result("KeyError", [path |-> path, base |-> bs, unexplored |-> un])
       ELSE findSideLoopNoRequeue(l, s, t, a, b, path \o <<tnode, l[t[tnode]]>>,
                                  Put(bs, tnode, b), un, fuel - 1)

RECURSIVE findSideLoop(_, _, _, _, _, _, _, _, _)
\* the loop of findSide, lines 84-89
findSideLoop(l, s, t, a, b, path, bs, un, fuel) ==
  IF path[Len(path)] = a THEN Result("ok", [path |-> path, base |-> bs, unexplored |-> un])
  ELSE IF fuel = 0 THEN Result("diverge", [path |-> path, base |-> bs, unexplored |-> un])
  ELSE IF path[Len(path)] \notin DOMAIN s
       THEN Result("KeyError", [path |-> path, base |-> bs, unexplored |-> un])
  ELSE LET tnode == s[path[Len(path)]] IN
       IF tnode \notin DOMAIN t
       THEN Result("KeyError", [path |-> path, base |-> bs, unexplored |-> un])
       ELSE findSideLoop(l, s, t, a, b, path \o <<tnode, l[t[tnode]]>>,
                         Put(bs, tnode, b), Append(un, tnode), fuel - 1)

\* faulty variant of findSide: line 83 reads b = (w, v)
findSideSwapped(l, s, t, a, v, w, bs, un, fuel) ==
  findSideLoop(l, s, t, a, <<w, v>>, <<l[v]>>, bs, un, fuel)

\* findSide(v, w), lines 81-90
findSide(l, s, t, a, v, w, bs, un, fuel) ==
  findSideLoop(l, s, t, a, <<v, w>>, <<l[v]>>, bs, un, fuel)

\* faulty variant of blossom: line 95 is missing, only path1 is united
blossomOneUnion(l, s, t, bs, un, v, w, a0, r1, r2, fuel) ==
  LET a == l[a0]
      f1 == findSide(l, s, t, a, v, w, bs, un, fuel)
      f2 == findSide(l, s, t, a, w, v, f1.val.base, f1.val.unexplored, fuel)
      l1 == Union(l, f1.val.path, r1)
      bad(st) == Result(st, [leader |-> l, S |-> s, base |-> bs, unexplored |-> un])
  IN IF f1.status # "ok" THEN bad(f1.status)
     ELSE IF f2.status # "ok" THEN bad(f2.status)
     ELSE IF a \notin DOMAIN s THEN bad("KeyError")
     ELSE Result("ok", [leader |-> l1, S |-> Put(s, l1[a], s[a]),
                        base |-> f2.val.base, unexplored |-> f2.val.unexplored])

\* faulty variant of blossom: line 93 calls findSide(v, w) for both paths
blossomOneSide(l, s, t, bs, un, v, w, a0, r1, r2, fuel) ==
  LET a == l[a0]
      f1 == findSide(l, s, t, a, v, w, bs, un, fuel)
      f2 == findSide(l, s, t, a, v, w, f1.val.base, f1.val.unexplored, fuel)
      l1 == Union(l, f1.val.path, r1)
      l2 == Union(l1, f2.val.path, l1[r1])
      bad(st) == Result(st, [leader |-> l, S |-> s, base |-> bs, unexplored |-> un])
  IN IF f1.status # "ok" THEN bad(f1.status)
     ELSE IF f2.status # "ok" THEN bad(f2.status)
     ELSE IF a \notin DOMAIN s THEN bad("KeyError")
     ELSE Result("ok", [leader |-> l2, S |-> Put(s, l2[a], s[a]),
                        base |-> f2.val.base, unexplored |-> f2.val.unexplored])

\* faulty variant of blossom: lines 94-95 are missing, the paths are not united
blossomNoUnion(l, s, t, bs, un, v, w, a0, r1, r2, fuel) ==
  LET a == l[a0]
      f1 == findSide(l, s, t, a, v, w, bs, un, fuel)
      f2 == findSide(l, s, t, a, w, v, f1.val.base, f1.val.unexplored, fuel)
      bad(st) == Result(st, [leader |-> l, S |-> s, base |-> bs, unexplored |-> un])
  IN IF f1.status # "ok" THEN bad(f1.status)
     ELSE IF f2.status # "ok" THEN bad(f2.status)
     ELSE IF a \notin DOMAIN s THEN bad("KeyError")
     ELSE Result("ok", [leader |-> l, S |-> Put(s, l[a], s[a]),
                        base |-> f2.val.base, unexplored |-> f2.val.unexplored])

\* faulty variant of blossom: line 96 reads S[leader[a]] = S[leader[v]]
blossomSFromV(l, s, t, bs, un, v, w, a0, r1, r2, fuel) ==
  LET a == l[a0]
      f1 == findSide(l, s, t, a, v, w, bs, un, fuel)
      f2 == findSide(l, s, t, a, w, v, f1.val.base, f1.val.unexplored, fuel)
      l1 == Union(l, f1.val.path, r1)
      l2 == Union(l1, f2.val.path, r2)
      bad(st) == Result(st, [leader |-> l, S |-> s, base |-> bs, unexplored |-> un])
  IN IF f1.status # "ok" THEN bad(f1.status)
     ELSE IF f2.status # "ok" THEN bad(f2.status)
     ELSE IF l[v] \notin DOMAIN s THEN bad("KeyError")
     ELSE Result("ok", [leader |-> l2, S |-> Put(s, l2[a], s[l[v]]),
                        base |-> f2.val.base, unexplored |-> f2.val.unexplored])

\* faulty variant of blossom: line 96 is missing, S is not updated for the new leader
blossomNoSUpdate(l, s, t, bs, un, v, w, a0, r1, r2, fuel) ==
  LET a == l[a0]
      f1 == findSide(l, s, t, a, v, w, bs, un, fuel)
      f2 == findSide(l, s, t, a, w, v, f1.val.base, f1.val.unexplored, fuel)
      l1 == Union(l, f1.val.path, r1)
      l2 == Union(l1, f2.val.path, r2)
      bad(st) == Result(st, [leader |-> l, S |-> s, base |-> bs, unexplored |-> un])
  IN IF f1.status # "ok" THEN bad(f1.status)
     ELSE IF f2.status # "ok" THEN bad(f2.status)
     ELSE Result("ok", [leader |-> l2, S |-> s,
                        base |-> f2.val.base, unexplored |-> f2.val.unexplored])

\* blossom(v, w, a), lines 78-96; r1 and r2 are the representatives the two
\* unions make canonical
blossom(l, s, t, bs, un, v, w, a0, r1, r2, fuel) ==
  LET a == l[a0]
      f1 == findSide(l, s, t, a, v, w, bs, un, fuel)
      f2 == findSide(l, s, t, a, w, v, f1.val.base, f1.val.unexplored, fuel)
      l1 == Union(l, f1.val.path, r1)
      l2 == Union(l1, f2.val.path, r2)
      bad(st) == Result(st, [leader |-> l, S |-> s, base |-> bs, unexplored |-> un])
  IN IF f1.status # "ok" THEN bad(f1.status)
     ELSE IF f2.status # "ok" THEN bad(f2.status)
     ELSE IF a \notin DOMAIN s THEN bad("KeyError")
     ELSE Result("ok", [leader |-> l2, S |-> Put(s, l2[a], s[a]),
                        base |-> f2.val.base, unexplored |-> f2.val.unexplored])

RECURSIVE alternatingPathLoopSwapped(_, _, _, _, _, _, _)
\* faulty variant of alternatingPathLoop: line 108 reads w, v = base[start]
alternatingPathLoopSwapped(m, t, bs, path, start, goal, fuel) ==
  IF fuel = 0 THEN Result("diverge", path)
  ELSE IF start \in DOMAIN t THEN
    IF start \notin DOMAIN bs THEN Result("KeyError", path)
    ELSE LET vs == alternatingPathLoopSwapped(m, t, bs, <<>>, bs[start][2], start,
                                              fuel - 1)
         IN IF vs.status # "ok" THEN vs
            ELSE alternatingPathLoopSwapped(m, t, bs, path \o Reverse(vs.val),
                                            bs[start][1], goal, fuel - 1)
  ELSE IF start \notin DOMAIN m THEN Result("ok", Append(path, start))
  ELSE LET tnode == m[start] IN
       IF tnode = goal THEN Result("ok", path \o <<start, tnode>>)
       ELSE IF tnode \notin DOMAIN t THEN Result("KeyError", path \o <<start, tnode>>)
       ELSE alternatingPathLoopSwapped(m, t, bs, path \o <<start, tnode>>, t[tnode],
                                       goal, fuel - 1)

RECURSIVE alternatingPathLoopNoGoal(_, _, _, _, _, _, _)
\* faulty variant of alternatingPathLoop: the test of lines 117-118 is missing
alternatingPathLoopNoGoal(m, t, bs, path, start, goal, fuel) ==
  IF fuel = 0 THEN Result("diverge", path)
  ELSE IF start \in DOMAIN t THEN
    IF start \notin DOMAIN bs THEN Result("KeyError", path)
    ELSE LET vs == alternatingPathLoopNoGoal(m, t, bs, <<>>, bs[start][1], start,
                                             fuel - 1)
         IN IF vs.status # "ok" THEN vs
            ELSE alternatingPathLoopNoGoal(m, t, bs, path \o Reverse(vs.val),
                                           bs[start][2], goal, fuel - 1)
  ELSE IF start \notin DOMAIN m THEN Result("ok", Append(path, start))
  ELSE LET tnode == m[start] IN
       IF tnode \notin DOMAIN t THEN Result("KeyError", path \o <<start, tnode>>)
       ELSE alternatingPathLoopNoGoal(m, t, bs, path \o <<start, tnode>>, t[tnode],
                                      goal, fuel - 1)

RECURSIVE alternatingPathLoop(_, _, _, _, _, _, _)
\* alternatingPath(start, goal), lines 99-120, with path the list built so far
alternatingPathLoop(m, t, bs, path, start, goal, fuel) ==
  IF fuel = 0 THEN Result("diverge", path)
  ELSE IF start \in DOMAIN t THEN
    IF start \notin DOMAIN bs THEN Result("KeyError", path)
    ELSE LET vs == alternatingPathLoop(m, t, bs, <<>>, bs[start][1], start, fuel - 1)
         IN IF vs.status # "ok" THEN vs
            ELSE alternatingPathLoop(m, t, bs, path \o Reverse(vs.val), bs[start][2],
                                     goal, fuel - 1)
  ELSE IF start \notin DOMAIN m THEN Result("ok", Append(path, start))
  ELSE LET tnode == m[start] IN
       IF tnode = goal THEN Result("ok", path \o <<start, tnode>>)
       ELSE IF tnode \notin DOMAIN t THEN Result("KeyError", path \o <<start, tnode>>)
       ELSE alternatingPathLoop(m, t, bs, path \o <<start, tnode>>, t[tnode], goal,
                                fuel - 1)

alternatingPath(m, t, bs, start, goal, fuel) ==
  alternatingPathLoop(m, t, bs, <<>>, start, goal, fuel)

RECURSIVE flipOneWay(_, _, _)
RECURSIVE alternatingPathCalls(_, _, _, _, _, _, _)
\* the recursive calls of line 109 that alternatingPath(start, goal) makes, at
\* any depth: the arguments of each and the number of calls active with it
alternatingPathCalls(m, t, bs, start, goal, depth, fuel) ==
  IF fuel = 0 THEN {}
  ELSE IF start \in DOMAIN t THEN
    IF start \notin DOMAIN bs THEN {}
    ELSE {[anchor |-> bs[start][1], goal |-> start, depth |-> depth + 1]}
           \cup alternatingPathCalls(m, t, bs, bs[start][1], start, depth + 1, fuel - 1)
           \cup alternatingPathCalls(m, t, bs, bs[start][2], goal, depth, fuel - 1)
  ELSE IF start \notin DOMAIN m \/ m[start] = goal \/ m[start] \notin DOMAIN t THEN {}
  ELSE alternatingPathCalls(m, t, bs, t[m[start]], goal, depth, fuel - 1)

\* faulty variant of flip: line 128 is missing, only one direction is written
flipOneWay(m, path, i) ==
  IF i >= Len(path) - 1 THEN m
  ELSE flipOneWay(Put(m, path[i + 1], path[i + 2]), path, i + 2)

RECURSIVE flipForgetful(_, _, _)
\* faulty variant of flip: the loop starts from an empty dictionary, the pairs
\* off the path are lost
flipForgetful(m, path, i) ==
  IF i >= Len(path) - 1 THEN m
  ELSE flipForgetful(Put(Put(IF i = 0 THEN EmptyDict ELSE m, path[i + 1], path[i + 2]),
                         path[i + 2], path[i + 1]), path, i + 2)

RECURSIVE flip(_, _, _)
\* the loop of alternate, lines 126-128, from index i (0-based) on
flip(m, path, i) ==
  IF i >= Len(path) - 1 THEN m
  ELSE flip(Put(Put(m, path[i + 1], path[i + 2]), path[i + 2], path[i + 1]), path, i + 2)

\* faulty variant of alternate: line 125 is missing, the path is flipped from
\* v instead of from the root
alternateNoReverse(m, t, bs, v, fuel) ==
  LET p == alternatingPath(m, t, bs, v, topless, fuel)
  IN IF p.status # "ok" THEN Result(p.status, m)
     ELSE Result("ok", flip(m, p.val, 0))

\* faulty variant of alternate: the path is found but the matching is not flipped
alternateNoFlip(m, t, bs, v, fuel) ==
  LET p == alternatingPath(m, t, bs, v, topless, fuel)
  IN Result(p.status, m)

\* alternate(v), lines 122-128
alternate(m, t, bs, v, fuel) ==
  LET p == alternatingPath(m, t, bs, v, topless, fuel)
  IN IF p.status # "ok" THEN Result(p.status, m)
     ELSE Result("ok", flip(m, Reverse(p.val), 0))

----------------------------------------------------------------------------
(* The driver. *)

Objects == {"default", "arg", "local"}

\* matching(G) or matching(G, m) is called: initialMatching is bound to the
\* shared default object or to the caller's dictionary m, lines 14 and 27-30
Enter(kind, m) ==
  LET ref == IF kind = "default" THEN "default" ELSE "arg"
      st == [store EXCEPT !["arg"] = m]
  IN /\ argKind' = kind
     /\ initRef' = ref
     /\ matchRef' = NewMatchingRef(ref)
     /\ store' = CopyInitial(st, ref)
     /\ gi' = G.verts
     /\ pc' = "greedy"
     /\ leader' = UnionFind(G.verts)
     /\ S' = EmptyDict /\ T' = EmptyDict /\ base' = EmptyDict
     /\ unexplored' = <<>> /\ current' = 0 /\ curV' = topless /\ todo' = {}
     /\ curW' = topless
     /\ matching0' = EmptyDict /\ greedyPairs' = 0 /\ nAugmented' = 0
     /\ nesting' = [x \in G.verts |-> 0]
     /\ UNCHANGED <<G, order>>

\* matching(G); no dictionary of the caller is involved
CallDefault ==
  /\ pc \in {"idle", "done"}
  /\ Enter("default", EmptyDict)

\* matching(G, m) for a nonempty matching m of G
CallExplicit ==
  /\ pc \in {"idle", "done"}
  /\ \E m \in MatchingsOn(G.adj, G.verts) \ {EmptyDict} : Enter("explicit", m)

\* matching(G, M) for the M that a call matching(G) has just returned
CallPrevious ==
  /\ pc = "done" /\ argKind = "default"
  /\ Enter("previous", matching)

\* one iteration of 'for v in G' of the greedy pass, lines 34-40
Greedy ==
  /\ pc = "greedy"
  /\ \E v \in First(gi, order) :
       /\ IF v \in DOMAIN matching \/ G.adj[v] \subseteq DOMAIN matching
          THEN UNCHANGED store
          ELSE \E w \in First(G.adj[v] \ DOMAIN matching, order) :
                 store' = [store EXCEPT ![matchRef] = GreedyVertex(matching, v, w)]
       /\ gi' = gi \ {v}
       /\ pc' = IF gi = {v} THEN "augment" ELSE "greedy"
  /\ UNCHANGED <<G, order, initRef, matchRef, argKind, matching0, nAugmented>>
  /\ greedyPairs' = Pairs(matching')
  /\ UNCHANGED phaseVars

\* faulty variant of Seed: the test of line 184 is missing, every vertex is a root
SeedAll(m, vs) == vs

\* the roots of a new phase, lines 183-186: the unmatched vertices
Seed(m, vs) == vs \ DOMAIN m

\* faulty variant of StartPhase: leader, T and base are created once per call
\* of matching and live on from phase to phase
StartPhaseStale ==
  /\ pc = "augment"
  /\ leader' = leader
  /\ T' = T /\ base' = base
  /\ unexplored' \in IterOrders(Seed(matching, G.verts), order)
  /\ S' = [v \in Seed(matching, G.verts) |-> v]
  /\ current' = 0 /\ curV' = topless /\ todo' = {} /\ curW' = topless
  /\ matching0' = matching
  /\ nesting' = [x \in G.verts |-> 0]
  /\ pc' = "scan"
  /\ UNCHANGED <<G, order, store, initRef, matchRef, argKind, gi, greedyPairs, nAugmented>>

\* augment() is called: fresh phase state, lines 68-72 and 183-188
StartPhase ==
  /\ pc = "augment"
  /\ leader' = UnionFind(G.verts)
  /\ T' = EmptyDict /\ base' = EmptyDict
  /\ unexplored' \in IterOrders(Seed(matching, G.verts), order)
  /\ S' = [v \in Seed(matching, G.verts) |-> v]
  /\ current' = 0 /\ curV' = topless /\ todo' = {} /\ curW' = topless
  /\ matching0' = matching
  /\ nesting' = [x \in G.verts |-> 0]
  /\ pc' = "scan"
  /\ UNCHANGED <<G, order, store, initRef, matchRef, argKind, gi, greedyPairs, nAugmented>>

\* the main loop takes the next vertex of unexplored, lines 189-193
Pop ==
  /\ pc = "scan" /\ todo = {}
  /\ current < Len(unexplored)
  /\ curV' = unexplored[current + 1]
  /\ current' = current + 1
  /\ todo' = G.adj[unexplored[current + 1]]
  /\ UNCHANGED <<G, order, store, initRef, matchRef, argKind, pc, gi, leader, S, T,
                 base, unexplored, curW, matching0, greedyPairs, nAugmented, nesting>>

\* the main loop ends, line 205: augment() returns False and the driver returns
PhaseFail ==
  /\ pc = "scan" /\ todo = {}
  /\ current >= Len(unexplored)
  /\ pc' = "done"
  /\ UNCHANGED <<G, order, store, initRef, matchRef, argKind, gi, matching0,
                 greedyPairs, nAugmented>>
  /\ UNCHANGED phaseVars

\* what ss(curV, w) finds for the neighbor w
Edge(w) == ss(leader, S, T, curV, w, Fuel)

Scanning == pc = "scan" /\ todo # {}

ScanFrame == UNCHANGED <<G, order, initRef, matchRef, argKind, gi, matching0,
                         greedyPairs, nAugmented, current, curV>>

\* line 194 true, ss returns at line 145
ScanSame ==
  /\ Scanning
  /\ \E w \in First(todo, order) :
       /\ leader[w] \in DOMAIN S
       /\ Edge(w).status = "same"
       /\ todo' = todo \ {w}
  /\ ScanFrame /\ UNCHANGED store
  /\ UNCHANGED <<pc, leader, S, T, base, unexplored, curW, nesting>>

\* line 194 true, ss calls blossom and returns False (or a lookup fails)
ScanBlossom ==
  /\ Scanning
  /\ \E w \in First(todo, order) :
       /\ leader[w] \in DOMAIN S
       /\ Edge(w).status \notin {"same", "augment"}
       /\ IF Edge(w).status = "blossom"
          THEN LET a == leader[Edge(w).val]
                   p1 == findSide(leader, S, T, a, curV, w, base, unexplored, Fuel)
                   l1(r1) == Union(leader, p1.val.path, r1)
                   p2 == findSide(leader, S, T, a, w, curV, base, unexplored, Fuel)
               IN \E r1 \in Roots(leader, p1.val.path) :
                    \E r2 \in Roots(l1(r1), p2.val.path) :
                      LET b == blossom(leader, S, T, base, unexplored, curV, w,
                                       Edge(w).val, r1, r2, Fuel)
                      IN /\ leader' = b.val.leader /\ S' = b.val.S
                         /\ base' = b.val.base
                         /\ unexplored' = b.val.unexplored
                         /\ pc' = IF b.status = "ok" THEN "scan" ELSE b.status
                         /\ nesting' = [x \in G.verts |->
                                          IF b.val.leader[x] = b.val.leader[curV]
                                          THEN nesting[x] + 1 ELSE nesting[x]]
          ELSE /\ pc' = Edge(w).status
               /\ UNCHANGED <<leader, S, base, unexplored, nesting>>
       /\ todo' = todo \ {w}
  /\ ScanFrame /\ UNCHANGED store
  /\ UNCHANGED <<T, curW>>

\* line 194 true, ss finds two roots and calls addMatch, lines 169-171
ScanAugment ==
  /\ Scanning
  /\ \E w \in First(todo, order) :
       /\ leader[w] \in DOMAIN S
       /\ Edge(w).status = "augment"
       /\ curW' = w
       /\ todo' = todo \ {w}
  /\ pc' = "alternate1"
  /\ ScanFrame /\ UNCHANGED store
  /\ UNCHANGED <<leader, S, T, base, unexplored, nesting>>

\* faulty variant of label: key and value are exchanged, T[v] = w
labelSwapped(m, t, w, v) == [T |-> Put(t, v, w), matching |-> m]

\* faulty variant of label: the entry is written into matching instead of T
labelMatching(m, t, w, v) == [T |-> Put(t, w, v), matching |-> Put(m, w, v)]

\* line 199, T[w] = v: the dictionaries T and matching afterwards
label(m, t, w, v) == [T |-> Put(t, w, v), matching |-> m]

\* faulty variant of addSNode: the T-node w is appended to unexplored in place
\* of its match u
addSNodeQueuesT(l, s, un, u, w) ==
  IF l[u] \notin DOMAIN s THEN [S |-> Put(s, u, w), unexplored |-> Append(un, w)]
  ELSE [S |-> s, unexplored |-> un]

\* faulty variant of addSNode: the new S-node is not appended to unexplored
addSNodeUnqueued(l, s, un, u, w) ==
  IF l[u] \notin DOMAIN s THEN [S |-> Put(s, u, w), unexplored |-> un]
  ELSE [S |-> s, unexplored |-> un]

\* faulty variant of addSNode: the test of line 201 is inverted
addSNodeInverted(l, s, un, u, w) ==
  IF l[u] \in DOMAIN s THEN [S |-> Put(s, u, w), unexplored |-> Append(un, u)]
  ELSE [S |-> s, unexplored |-> un]

\* lines 201-203: the match u of the new T-node w becomes an S-node
addSNode(l, s, un, u, w) ==
  IF l[u] \notin DOMAIN s THEN [S |-> Put(s, u, w), unexplored |-> Append(un, u)]
  ELSE [S |-> s, unexplored |-> un]

\* lines 198-203: w becomes a T-node and its match an S-node
ScanLabel ==
  /\ Scanning
  /\ \E w \in First(todo, order) :
       /\ leader[w] \notin DOMAIN S
       /\ w \notin DOMAIN T
       /\ todo' = todo \ {w}
       /\ T' = label(matching, T, w, curV).T
       /\ store' = [store EXCEPT ![matchRef] = label(matching, T, w, curV).matching]
       /\ IF w \notin DOMAIN matching
          THEN pc' = "KeyError" /\ UNCHANGED <<S, unexplored>>
          ELSE /\ pc' = pc
               /\ S' = addSNode(leader, S, unexplored, matching[w], w).S
               /\ unexplored' = addSNode(leader, S, unexplored, matching[w], w).unexplored
  /\ ScanFrame
  /\ UNCHANGED <<leader, base, curW, nesting>>

\* neither branch of lines 194-198: w is already a T-node
ScanSkip ==
  /\ Scanning
  /\ \E w \in First(todo, order) :
       /\ leader[w] \notin DOMAIN S
       /\ w \in DOMAIN T
       /\ todo' = todo \ {w}
  /\ ScanFrame /\ UNCHANGED store
  /\ UNCHANGED <<pc, leader, S, T, base, unexplored, curW, nesting>>

AddMatchFrame == UNCHANGED <<G, order, initRef, matchRef, argKind, gi, matching0,
                             greedyPairs, leader, S, T, base, unexplored, current,
                             curV, todo, curW, nesting>>

\* addMatch, line 134: alternate(v)
Alternate1 ==
  /\ pc = "alternate1"
  /\ LET r == alternate(matching, T, base, curV, Fuel)
     IN /\ store' = [store EXCEPT ![matchRef] = r.val]
        /\ pc' = IF r.status = "ok" THEN "alternate2" ELSE r.status
  /\ AddMatchFrame /\ UNCHANGED nAugmented

\* addMatch, line 135: alternate(w)
Alternate2 ==
  /\ pc = "alternate2"
  /\ LET r == alternate(matching, T, base, curW, Fuel)
     IN /\ store' = [store EXCEPT ![matchRef] = r.val]
        /\ pc' = IF r.status = "ok" THEN "addMatch" ELSE r.status
  /\ AddMatchFrame /\ UNCHANGED nAugmented

\* addMatch, lines 136-137; ss and augment return True and the driver loops
AddMatch ==
  /\ pc = "addMatch"
  /\ store' = [store EXCEPT ![matchRef] = Put(Put(matching, curV, curW), curW, curV)]
  /\ nAugmented' = nAugmented + 1
  /\ pc' = "augment"
  /\ AddMatchFrame

----------------------------------------------------------------------------

TypeInit ==
  /\ store = [o \in Objects |-> EmptyDict]
  /\ initRef = "default" /\ matchRef = "local" /\ argKind = "none"
  /\ pc = "idle" /\ gi = {}
  /\ leader = UnionFind(G.verts)
  /\ S = EmptyDict /\ T = EmptyDict /\ base = EmptyDict
  /\ unexplored = <<>> /\ current = 0 /\ curV = topless /\ todo = {}
  /\ curW = topless
  /\ matching0 = EmptyDict /\ greedyPairs = 0 /\ nAugmented = 0
  /\ nesting = [x \in G.verts |-> 0]

\* every graph on N vertices, the named instances, the nested-blossom graphs
\* and the stem graphs, iterated in ascending order; every graph on N - 1
\* vertices iterated in every order
Init ==
  /\ \/ G \in Graphs(N) \cup NamedGraphs \cup NestedGraphs \cup StemGraphs /\ order = "asc"
     \/ G \in Graphs(N - 1) /\ order = "any"
  /\ TypeInit

Next ==
  \/ CallDefault \/ CallExplicit \/ CallPrevious \/ Greedy \/ StartPhase \/ Pop \/ PhaseFail
  \/ ScanSame \/ ScanBlossom \/ ScanAugment \/ ScanLabel \/ ScanSkip
  \/ Alternate1 \/ Alternate2 \/ AddMatch

Spec == Init /\ [][Next]_vars

\* the steps of a running call
Run ==
  \/ Greedy \/ StartPhase \/ Pop \/ PhaseFail
  \/ ScanSame \/ ScanBlossom \/ ScanAugment \/ ScanLabel \/ ScanSkip
  \/ Alternate1 \/ Alternate2 \/ AddMatch

\* the named instances, their containers iterated in every order
InitNamed ==
  /\ G \in NamedGraphs
  /\ order = "any"
  /\ TypeInit

\* the calls matching(G) and matching(G, M) only
NextNamed ==
  \/ CallDefault \/ CallPrevious \/ Greedy \/ StartPhase \/ Pop \/ PhaseFail
  \/ ScanSame \/ ScanBlossom \/ ScanAugment \/ ScanLabel \/ ScanSkip
  \/ Alternate1 \/ Alternate2 \/ AddMatch

SpecNamed == InitNamed /\ [][NextNamed]_vars

\* the main loop of lines 189-193 with the choice of line 190 left open: any
\* vertex of unexplored that was not taken yet is taken next (the last one for
\* LIFO); it changes places with the vertex at index current
PopAny ==
  /\ pc = "scan" /\ todo = {}
  /\ \E j \in (current + 1)..Len(unexplored) :
       /\ curV' = unexplored[j]
       /\ unexplored' = [unexplored EXCEPT ![current + 1] = unexplored[j],
                                           ![j] = unexplored[current + 1]]
       /\ todo' = G.adj[unexplored[j]]
  /\ current' = current + 1
  /\ UNCHANGED <<G, order, store, initRef, matchRef, argKind, pc, gi, leader, S, T,
                 base, curW, matching0, greedyPairs, nAugmented, nesting>>

\* the algorithm with an arbitrary exploration order
NextAnyPop ==
  \/ CallDefault \/ CallExplicit \/ Greedy \/ StartPhase \/ PopAny \/ PhaseFail
  \/ ScanSame \/ ScanBlossom \/ ScanAugment \/ ScanLabel \/ ScanSkip
  \/ Alternate1 \/ Alternate2 \/ AddMatch

\* every graph on N - 1 vertices iterated in every order, the named instances
\* and the nested-blossom graphs iterated in ascending order
InitAnyPop ==
  /\ \/ G \in Graphs(N - 1) /\ order = "any"
     \/ G \in NamedGraphs \cup NestedGraphs /\ order = "asc"
  /\ TypeInit

SpecAnyPop == InitAnyPop /\ [][NextAnyPop]_vars

\* g with v listed as its own neighbor
WithLoop(g, v) == [g EXCEPT !.adj[v] = @ \cup {v}]

\* g with w taken out of the neighbors of v, v staying a neighbor of w
WithoutArc(g, v, w) == [g EXCEPT !.adj[v] = @ \ {w}]

\* the inputs that break the precondition on G in one place: some vertex is
\* its own neighbor or some adjacency is not symmetric
MalformedGraphs(n) ==
  UNION {{WithLoop(g, v) : v \in g.verts}
           \cup UNION {{WithoutArc(g, v, w) : w \in g.adj[v]} : v \in g.verts} :
         g \in Graphs(n)}

InitMalformed ==
  /\ G \in MalformedGraphs(N)
  /\ order = "asc"
  /\ TypeInit

\* the call matching(G) and its steps
NextMalformed ==
  \/ CallDefault \/ Greedy \/ StartPhase \/ Pop \/ PhaseFail
  \/ ScanSame \/ ScanBlossom \/ ScanAugment \/ ScanLabel \/ ScanSkip
  \/ Alternate1 \/ Alternate2 \/ AddMatch

SpecMalformed == InitMalformed /\ [][NextMalformed]_vars

----------------------------------------------------------------------------
(* Independent oracles. *)

RECURSIVE AugFrom(_, _, _, _)
\* an alternating path leaves u by an unmatched edge and reaches an unmatched
\* vertex without meeting a vertex of visited
AugFrom(adj, m, u, visited) ==
  \E x \in adj[u] \ visited :
    \/ x \notin DOMAIN m
    \/ /\ m[x] \notin visited
       /\ AugFrom(adj, m, m[x], visited \cup {x, m[x]})

\* the graph has an augmenting path with respect to the matching m
AugPathExists(g, m) ==
  \E r \in g.verts \ DOMAIN m : AugFrom(g.adj, m, r, {r})

RECURSIVE MaxMatchingSize(_, _)
\* the largest number of pairs of a matching of adj within the vertices vs
MaxMatchingSize(adj, vs) ==
  IF vs = {} THEN 0
  ELSE LET v == CHOOSE x \in vs : TRUE
           sizes == {MaxMatchingSize(adj, vs \ {v})}
                      \cup {1 + MaxMatchingSize(adj, vs \ {v, w}) : w \in adj[v] \cap vs}
       IN CHOOSE n \in sizes : \A k \in sizes : k <= n

RECURSIVE TreeRoot(_, _)
\* the root vertex of the structure tree that holds x, found by walking up
TreeRoot(x, fuel) ==
  LET h == leader[x] IN
  IF fuel = 0 \/ h \notin DOMAIN S THEN topless
  ELSE IF leader[S[h]] = h THEN S[h]
  ELSE IF S[h] \notin DOMAIN T THEN topless
  ELSE TreeRoot(T[S[h]], fuel - 1)

Returned == pc = "done"

----------------------------------------------------------------------------
(* Claims. *)

\* C1: the mapping that matching(G, initial) returns is a matching of G: every
\* key's value is a neighbor of the key, differs from it, is itself a key and
\* maps back to the key.
C1_ReturnedIsMatching ==
  Returned => IsMatching(matching, G.adj)

\* C1 witness: a call with an explicit initial matching returned after at
\* least one augmentation, with two or more pairs.
C1_Witness ==
  Returned /\ argKind = "explicit" /\ nAugmented >= 1 /\ Pairs(matching) >= 2

\* C2: the returned matching has maximum cardinality: no augmenting path exists
\* with respect to it, and its number of pairs is the maximum over all
\* matchings of G found by exhaustive search.
C2_ReturnedIsMaximum ==
  Returned => /\ ~AugPathExists(G, matching)
              /\ Pairs(matching) = MaxMatchingSize(G.adj, G.verts)

\* C2 witness: the greedy matching was not maximum and the returned one,
\* reached by augmentation, is.
C2_Witness ==
  Returned /\ nAugmented >= 1 /\ Pairs(matching) > greedyPairs
    /\ Pairs(matching) = MaxMatchingSize(G.adj, G.verts)

\* C3: when a phase has returned true the matching is a matching of G with
\* exactly one more pair than at the start of the phase, and its matched
\* vertices are the previous ones plus the two distinct, previously unmatched
\* roots of the structure trees of v and w.
C3_AugmentAddsOnePair ==
  (pc = "augment" /\ nAugmented >= 1) =>
     LET r1 == TreeRoot(curV, Fuel)
         r2 == TreeRoot(curW, Fuel)
     IN /\ IsMatching(matching, G.adj)
        /\ Pairs(matching) = Pairs(matching0) + 1
        /\ r1 # r2
        /\ {r1, r2} \subseteq G.verts \ DOMAIN matching0
        /\ DOMAIN matching = DOMAIN matching0 \cup {r1, r2}

\* C3 witness: a phase has just returned true after an augmentation whose path
\* ran through a blossom (the edge's endpoint was a T-vertex with a base).
C3_Witness ==
  pc = "augment" /\ nAugmented >= 1 /\ ({curV, curW} \cap DOMAIN base # {})

\* C4: a phase returns true whenever G has an augmenting path with respect to
\* the matching the phase started from, and false only when there is none.
C4_PhaseComplete ==
  /\ Returned => ~AugPathExists(G, matching0)
  /\ pc \in {"alternate1", "alternate2", "addMatch"} => AugPathExists(G, matching0)

\* C4 witness: a phase that formed a blossom is about to return true.
C4_Witness ==
  pc = "alternate1" /\ base # EmptyDict /\ AugPathExists(G, matching0)

\* C5: within a phase only addMatch writes the matching: starting the phase,
\* taking a vertex, labelling, ss calls that do not augment and blossom
\* formation leave it unchanged, so a phase that returns false ends with the
\* matching it started with.
C5_PhaseFrame ==
  [][/\ (pc = "augment" \/ pc = "scan") => matching' = matching
     /\ pc = "scan" => matching' = matching0]_vars

\* C5 witness: a phase returned false after forming a blossom and labelling
\* T-vertices, the matching being the one it started with.
C5_Witness ==
  Returned /\ base # EmptyDict /\ T # EmptyDict /\ matching = matching0
    /\ matching # EmptyDict

\* the room one phase has for its steps
PhaseBudget == Cardinality(G.verts) * (Cardinality(G.verts) + 1) + 5

\* a variant of the running call: the number of unmatched vertices, then the
\* vertices still to be taken from unexplored, then the neighbors still to scan
Rank ==
  LET n == Cardinality(G.verts)
      unm(m) == Cardinality(G.verts \ DOMAIN m)
  IN CASE pc = "greedy" -> (unm(matching) + 1) * PhaseBudget + Cardinality(gi)
       [] pc = "augment" -> unm(matching) * PhaseBudget + PhaseBudget - 1
       [] pc = "scan" -> unm(matching0) * PhaseBudget
                           + (n - current) * (n + 1) + Cardinality(todo) + 3
       [] pc = "alternate1" -> unm(matching0) * PhaseBudget + 2
       [] pc = "alternate2" -> unm(matching0) * PhaseBudget + 1
       [] pc = "addMatch" -> unm(matching0) * PhaseBudget
       [] OTHER -> 0

\* the running call has a next step: the guards of the actions of Run
CanStep ==
  \/ pc = "greedy" /\ gi # {}
  \/ pc \in {"augment", "scan", "alternate1", "alternate2", "addMatch"}

\* C6: matching(G, initial) terminates: no loop inside a step (the walk of ss,
\* findSide, alternatingPath) runs on, every step of a running call lowers a
\* natural-number variant (so the main loop and the driver loop end), a call
\* that has not returned can always take its next step, and the number of
\* phases that returned true never exceeds floor(|V|/2) minus the number of
\* pairs after the greedy pass.
C6_Terminates ==
  /\ [](pc # "diverge" /\ Rank >= 0)
  /\ [](pc \notin {"idle", "greedy"} =>
          nAugmented <= (Cardinality(G.verts) \div 2) - greedyPairs)
  /\ [](pc \notin {"idle", "done"} => CanStep)
  /\ [][Run => Rank' < Rank]_vars

\* C6 witness: a call returned after as many successful phases as the bound
\* allows.
C6_Witness ==
  Returned /\ nAugmented >= 1
    /\ nAugmented = (Cardinality(G.verts) \div 2) - greedyPairs

\* C7: idempotence under re-run: when the mapping M returned by matching(G)
\* is passed as the initial matching, the greedy pass adds nothing, no phase
\* augments, and the call returns a mapping equal to M.
C7_Idempotent ==
  argKind = "previous" =>
    /\ matching = store["arg"]
    /\ nAugmented = 0
    /\ pc \in {"greedy", "augment", "scan", "done"}

\* C7 witness: the re-run returned on a graph where M leaves a vertex
\* unmatched, so that its phase had a root and labelled T-vertices.
C7_Witness ==
  Returned /\ argKind = "previous" /\ matching # EmptyDict /\ T # EmptyDict
    /\ G.verts \ DOMAIN matching # {}

\* the known maximum number of pairs of the named instance g (-1: not named)
NamedSize(g) ==
  IF g = Bowtie THEN 2
  ELSE IF g = Star THEN 1
  ELSE IF \E n \in 2..MaxNamed : g = Complete(n) \/ g = Path(n)
       THEN Cardinality(g.verts) \div 2
  ELSE IF \E n \in 3..MaxNamed : n % 2 = 1 /\ g = Cycle(n)
       THEN (Cardinality(g.verts) - 1) \div 2
  ELSE -1

\* C8: on the named instances the returned matching has the known maximum
\* number of pairs: floor(n/2) for the complete graph and the path on n
\* vertices, k for the odd cycle of length 2k+1, 2 for the bowtie and 1 (one
\* center-leaf edge) for the star, whatever the iteration orders.
C8_NamedInstances ==
  Returned =>
    /\ NamedSize(G) >= 0 => Pairs(matching) = NamedSize(G)
    /\ G = Star => \E w \in 1..5 : matching = Put(Put(EmptyDict, 0, w), w, 0)

\* C8 witness: the call returned on the 5-cycle with two pairs after its
\* failing phase contracted the cycle into a blossom.
C8_Witness ==
  Returned /\ G = Cycle(5) /\ Pairs(matching) = 2 /\ base # EmptyDict

\* C9: no lookup fails during a run: a vertex newly labelled T is a key of
\* the matching, the S, T and base lookups of step, findSide and
\* alternatingPath hit existing keys, and a vertex is a key of base exactly
\* when it is in T and its leader is in S.
C9_NoLookupFails ==
  /\ pc # "KeyError"
  /\ pc \in {"scan", "alternate1"} =>
       /\ DOMAIN T \subseteq DOMAIN matching
       /\ \A x \in G.verts :
            x \in DOMAIN base <=> (x \in DOMAIN T /\ leader[x] \in DOMAIN S)

\* C9 witness: alternate(v) has run without a failing lookup from a vertex v
\* that is a T-vertex absorbed into a blossom, so base[v] was looked up.
C9_Witness ==
  pc = "alternate2" /\ curV \in DOMAIN T /\ curV \in DOMAIN base

\* C10: the call uses the initial matching nondestructively: no step of a
\* running call changes the caller's dictionary, and the shared default
\* dictionary stays empty at every step.
C10_Nondestructive ==
  [][/\ store'["default"] = EmptyDict
     /\ pc \notin {"idle", "done"} => store'["arg"] = store["arg"]]_vars

\* C10 witness: a call with an explicit initial matching returned a mapping
\* that differs from the caller's dictionary, and the default is empty.
C10_Witness ==
  Returned /\ argKind = "explicit" /\ matching # store["arg"]
    /\ store["arg"] # EmptyDict /\ store["default"] = EmptyDict

\* a key of m whose value is a key that maps back to it
Paired(m, v) == v \in DOMAIN m /\ m[v] \in DOMAIN m /\ m[m[v]] = v

\* C11: the set of matched vertices never shrinks during a run: no step of a
\* running call removes a key of the matching, and after the greedy pass, at
\* every main-loop step, after every phase and on return every vertex of the
\* initial matching and every vertex matched so far is paired with a vertex
\* that is paired with it (possibly another partner than before).
C11_MatchedNeverShrinks ==
  /\ [][pc \notin {"idle", "done"} => DOMAIN matching \subseteq DOMAIN matching']_vars
  /\ [](pc \in {"augment", "scan", "done"} =>
          /\ DOMAIN initialMatching \subseteq DOMAIN matching
          /\ DOMAIN matching0 \subseteq DOMAIN matching
          /\ \A v \in DOMAIN matching : Paired(matching, v))

\* C11 witness: a call with an explicit initial matching returned after an
\* augmentation that gave a vertex of the initial matching another partner,
\* all vertices of the initial matching being matched still.
C11_Witness ==
  Returned /\ argKind = "explicit" /\ nAugmented >= 1
    /\ DOMAIN initialMatching \subseteq DOMAIN matching
    /\ \E v \in DOMAIN initialMatching : matching[v] # initialMatching[v]

\* C12: correctness does not depend on the exploration order: when the next
\* vertex is taken from unexplored in any order and vertices and neighbors are
\* iterated in any order, no lookup fails and no loop runs on, a phase returns
\* true only when the matching it started from has an augmenting path and
\* false only when it has none, and the driver returns a matching of G of
\* maximum cardinality.
C12_AnyOrderCorrect ==
  /\ pc \notin {"KeyError", "diverge"}
  /\ pc \in {"alternate1", "alternate2", "addMatch"} => AugPathExists(G, matching0)
  /\ Returned => /\ ~AugPathExists(G, matching0)
                 /\ IsMatching(matching, G.adj)
                 /\ Pairs(matching) = MaxMatchingSize(G.adj, G.verts)

\* C12 witness: a phase returned true after it took a vertex that became an
\* S-node during the phase while a root, which FIFO order would have taken
\* first, was still waiting in unexplored.
C12_Witness ==
  /\ pc = "augment" /\ nAugmented >= 1
  /\ \E i \in 1..current : unexplored[i] \in DOMAIN matching0
  /\ \E j \in (current + 1)..Len(unexplored) : unexplored[j] \notin DOMAIN matching0

\* C13: the greedy pass.  Each of its iterations either leaves the matching
\* alone (the vertex is matched or has no unmatched neighbor) or adds exactly
\* the pair of the unmatched vertex and its first unmatched neighbor in scan
\* order, both directions in the same step; after the pass the matching is a
\* matching of G that holds every pair of the initial matching unchanged and
\* is maximal: no edge of G has both endpoints unmatched.
C13_GreedyPass ==
  /\ [][pc = "greedy" =>
          LET v == CHOOSE x \in gi : x \notin gi'
              un == G.adj[v] \ DOMAIN matching
          IN IF v \in DOMAIN matching \/ un = {} THEN matching' = matching
             ELSE \E w \in un :
                    /\ order = "asc" => \A y \in un : w <= y
                    /\ DOMAIN matching' = DOMAIN matching \cup {v, w}
                    /\ matching'[v] = w /\ matching'[w] = v
                    /\ \A y \in DOMAIN matching : matching'[y] = matching[y]]_vars
  /\ []((pc = "augment" /\ nAugmented = 0) =>
          /\ IsMatching(matching, G.adj)
          /\ \A v \in DOMAIN initialMatching :
               v \in DOMAIN matching /\ matching[v] = initialMatching[v]
          /\ \A v \in G.verts \ DOMAIN matching : G.adj[v] \subseteq DOMAIN matching)

\* C13 witness: the greedy pass of a call with an explicit initial matching
\* has ended; it added a pair and left two or more vertices unmatched.
C13_Witness ==
  /\ pc = "augment" /\ nAugmented = 0 /\ argKind = "explicit"
  /\ greedyPairs > Pairs(initialMatching)
  /\ Cardinality(G.verts \ DOMAIN matching) >= 2

\* C14: on malformed input (a vertex listed as its own neighbor, or adjacency
\* that is not symmetric) the core fails with an error and never returns a
\* mapping that is not a matching of G: a returned mapping has no M[v] = v, is
\* symmetric and joins neighbors only.
C14_MalformedFailsFast ==
  Returned => IsMatching(matching, G.adj)

\* C15: the matching is a symmetric partial mapping at all times, at the
\* granularity of subroutine calls: after each greedy pairing, at every
\* main-loop step of a phase, after each alternate() call inside addMatch and
\* after addMatch, matching[v] = w implies matching[w] = v.
C15_SymmetricAtAllTimes ==
  \A v \in DOMAIN matching : Paired(matching, v)

\* C15 as amended: the matching is symmetric after each greedy pairing, at
\* every main-loop step of a phase, after addMatch and on return.  Inside
\* addMatch it is symmetric except at the endpoints of the S-S edge: after
\* alternate(v) the entry of v, and after alternate(w) the entries of v and w,
\* may still name the former partner, which is now paired with another vertex;
\* lines 136-137 overwrite both.  An endpoint that was unmatched when the phase
\* started has no entry until then.
C15_SymmetricOutsideAddMatch ==
  /\ pc \in {"greedy", "augment", "scan", "done"} =>
       \A v \in DOMAIN matching : Paired(matching, v)
  /\ pc = "alternate2" =>
       /\ \A v \in DOMAIN matching \ {curV} : Paired(matching, v)
       /\ curV \in DOMAIN matching <=> curV \in DOMAIN matching0
  /\ pc = "addMatch" =>
       /\ \A v \in DOMAIN matching \ {curV, curW} : Paired(matching, v)
       /\ \A v \in {curV, curW} : v \in DOMAIN matching <=> v \in DOMAIN matching0

\* C15 witness: alternate(v) has returned inside addMatch for a v that was
\* matched; v still maps to its former partner, which maps elsewhere.
C15_Witness ==
  /\ pc = "alternate2" /\ curV \in DOMAIN matching
  /\ matching[matching[curV]] # curV
  /\ \A v \in DOMAIN matching \ {curV} : Paired(matching, v)

\* C16: every element taken from unexplored is a blossom leader: at the moment
\* a vertex v is popped in the main loop, leader[v] = v.
C16_PoppedIsLeader ==
  [][current' = current + 1 => leader'[curV'] = curV']_vars

\* C16 as amended: every element taken from unexplored is an original vertex
\* whose blossom is an S-node: at the moment v is popped leader[v] is a key of
\* S.  v itself is a key of S (a root or the match of a T-vertex) or a T-vertex
\* with a base, absorbed into a blossom; it need not be the leader of its
\* blossom.
C16_PoppedIsInSNode ==
  [][current' = current + 1 =>
       /\ leader'[curV'] \in DOMAIN S'
       /\ curV' \in DOMAIN S' \/ (curV' \in DOMAIN T' /\ curV' \in DOMAIN base')]_vars

\* C16 witness: a vertex has just been popped, none of its neighbors visited
\* yet, that is a T-vertex absorbed into a blossom led by another vertex.
C16_Witness ==
  /\ pc = "scan" /\ current >= 1 /\ curV = unexplored[current]
  /\ todo = G.adj[curV] /\ todo # {}
  /\ leader[curV] # curV /\ leader[curV] \in DOMAIN S
  /\ curV \in DOMAIN T /\ curV \in DOMAIN base

\* the elements of the list q
Elems(q) == {q[i] : i \in 1..Len(q)}

\* the list q holds no element twice
NoDuplicates(q) == \A i \in 1..Len(q) : \A j \in 1..Len(q) : q[i] = q[j] => i = j

\* C17: at every main-loop step boundary of a phase unexplored holds no vertex
\* twice and its elements are exactly the original vertices x with leader[x]
\* in S; when the phase returns false every such vertex has been popped and
\* all its neighbors have been visited.
C17_UnexploredIsSVertices ==
  /\ pc \in {"scan", "done"} =>
       /\ NoDuplicates(unexplored)
       /\ Elems(unexplored) = {x \in G.verts : leader[x] \in DOMAIN S}
       /\ current <= Len(unexplored)
  /\ Returned => current = Len(unexplored) /\ todo = {}

\* C17 witness: a main-loop step boundary after a blossom has formed, with
\* the match of a T-vertex and a T-vertex absorbed into the blossom in
\* unexplored, a vertex still to be popped and a vertex that is not in
\* unexplored.
C17_Witness ==
  /\ pc = "scan" /\ current < Len(unexplored)
  /\ \E x \in Elems(unexplored) : x \in DOMAIN T /\ x \in DOMAIN base
  /\ \E x \in Elems(unexplored) : x \in DOMAIN S /\ x \in DOMAIN matching
  /\ \E x \in G.verts : x \notin Elems(unexplored)

\* x is a T-vertex as the structure tree wants it: matched at the start of the
\* phase and now, its match in an S-node, T[x] a neighbor across an unmatched
\* edge and in an S-node
TVertexOK(x) ==
  /\ x \in DOMAIN matching0 /\ x \in DOMAIN matching
  /\ leader[matching[x]] \in DOMAIN S
  /\ T[x] \in G.adj[x]
  /\ T[x] # matching[x]
  /\ leader[T[x]] \in DOMAIN S

\* C18: for every vertex x in T at any point of a phase, the calls of
\* alternate inside addMatch included: x is matched (never a tree root),
\* leader[matching[x]] is in S, and T[x] is a neighbor of x in G different
\* from matching[x], with leader[T[x]] in S.
C18_TVertexAtAnyPoint ==
  pc \in {"scan", "alternate1", "alternate2", "addMatch"} =>
    \A x \in DOMAIN T : TVertexOK(x)

\* C18 as amended: the same holds for every vertex x in T at every main-loop
\* step boundary of a phase, up to the call of addMatch and when the phase
\* returns false.  Once alternate() has flipped a path inside addMatch, a
\* T-vertex on it may be matched to T[x] itself; every x in T is still
\* matched, T[x] is a neighbor of x and leader[T[x]] is in S.
C18_TVertexDuringSearch ==
  /\ pc \in {"scan", "alternate1", "done"} => \A x \in DOMAIN T : TVertexOK(x)
  /\ pc \in {"alternate2", "addMatch"} =>
       \A x \in DOMAIN T : /\ x \in DOMAIN matching0 /\ x \in DOMAIN matching
                            /\ T[x] \in G.adj[x]
                            /\ leader[T[x]] \in DOMAIN S

\* C18 witness: a main-loop step boundary with a T-vertex absorbed into a
\* blossom and a T-vertex outside every blossom, both as the tree wants them.
C18_Witness ==
  /\ pc = "scan"
  /\ \E x \in DOMAIN T : x \in DOMAIN base /\ TVertexOK(x)
  /\ \E x \in DOMAIN T : x \notin DOMAIN base /\ TVertexOK(x)

\* the leaders of the current S-nodes
SLeaders == {leader[x] : x \in {y \in G.verts : leader[y] \in DOMAIN S}}

\* the vertices of the blossom led by L
Blossom(L) == {x \in G.verts : leader[x] = L}

\* the S-node led by L is a tree root: it holds a vertex that was unmatched
\* when the phase started
IsRootNode(L) == \E x \in Blossom(L) : x \notin DOMAIN matching0

\* C19: for every current S-node with blossom leader L, S[L] is a T-vertex
\* when the node is not a tree root and is the leader L itself when the node
\* is a tree root, also after blossoms containing the root have formed and
\* the union-find has made any of the previous representatives the leader.
C19_RootValueIsLeader ==
  pc = "scan" =>
    \A L \in SLeaders : IF IsRootNode(L) THEN S[L] = L ELSE S[L] \in DOMAIN T

\* C19 as amended: for every current S-node with blossom leader L, S[L] is a
\* T-vertex outside L's blossom, whose match lies in it, when the node is not
\* a tree root; when the node is a tree root S[L] is the top vertex of the
\* tree, the vertex of L's blossom that was unmatched when the phase started
\* (leader[S[L]] = L).  S[L] is L itself only while the union-find keeps that
\* vertex as the representative.
C19_RootValueIsTopVertex ==
  pc \in {"scan", "alternate1", "done"} =>
    \A L \in SLeaders :
      IF IsRootNode(L)
      THEN /\ leader[S[L]] = L
           /\ S[L] \notin DOMAIN matching0
           /\ \A x \in Blossom(L) : x \notin DOMAIN matching0 => x = S[L]
      ELSE /\ S[L] \in DOMAIN T
           /\ leader[S[L]] # L
           /\ leader[matching0[S[L]]] = L

\* C19 witness: a main-loop step boundary with a root blossom whose leader is
\* not the root and with an S-node that is not a root.
C19_Witness ==
  /\ pc = "scan"
  /\ \E L \in SLeaders : IsRootNode(L) /\ S[L] # L /\ leader[S[L]] = L
  /\ \E L \in SLeaders : ~IsRootNode(L) /\ S[L] \in DOMAIN T

RECURSIVE WalkToRoot(_, _)
\* the walk from the S-node leader L up the structure tree, seen the leaders
\* met so far: S[L] is a T-vertex outside every blossom and leader[T[S[L]]]
\* a new S-node leader, until a root whose blossom holds exactly one
\* unmatched vertex
WalkToRoot(L, seen) ==
  /\ L \in DOMAIN S
  /\ L \notin DOMAIN T \/ L \in DOMAIN base
  /\ IF leader[S[L]] = L
     THEN Cardinality(Blossom(L) \ DOMAIN matching) = 1
     ELSE LET t == S[L] IN
          /\ t \in DOMAIN T
          /\ t \notin DOMAIN base /\ Blossom(leader[t]) = {t} /\ t \notin DOMAIN S
          /\ Blossom(L) \subseteq DOMAIN matching
          /\ leader[T[t]] \notin seen
          /\ WalkToRoot(leader[T[t]], seen \cup {leader[T[t]]})

\* C20: at every main-loop step boundary the structure is an alternating
\* forest: the walk from any current S-node leader L to the T-vertex S[L] and
\* on to the S-node leader[T[S[L]]] alternates S, T, S, T, visits no leader
\* twice, passes only T-vertices outside every blossom and ends at a tree
\* root (leader[S[L]] = L) whose blossom holds exactly one unmatched vertex.
C20_AlternatingForest ==
  pc \in {"scan", "done"} => \A L \in SLeaders : WalkToRoot(L, {L})

\* C20 witness: a main-loop step boundary where the walk from an S-node that
\* is not a root passes a T-vertex and ends at a root blossom of three or
\* more vertices.
C20_Witness ==
  /\ pc = "scan"
  /\ \E L \in SLeaders :
       /\ leader[S[L]] # L /\ S[L] \in DOMAIN T
       /\ Cardinality(Blossom(leader[T[S[L]]])) >= 3
       /\ WalkToRoot(L, {L})

RECURSIVE AncSeq(_, _)
\* the S-node leaders from L up to the root of its structure tree
AncSeq(L, fuel) ==
  IF fuel = 0 \/ L \notin DOMAIN S \/ leader[S[L]] = L \/ S[L] \notin DOMAIN T
  THEN <<L>>
  ELSE <<L>> \o AncSeq(leader[T[S[L]]], fuel - 1)

\* the first leader above L1 (L1 included) that is also above L2
FirstShared(L1, L2) ==
  LET a1 == AncSeq(L1, Fuel)
      a2 == AncSeq(L2, Fuel)
      hits == {i \in 1..Len(a1) : a1[i] \in Elems(a2)}
  IN IF hits = {} THEN topless
     ELSE a1[CHOOSE i \in hits : \A j \in hits : i <= j]

\* the number of steps from L up to its ancestor a
StepsUp(L, a) ==
  LET a1 == AncSeq(L, Fuel)
  IN CHOOSE i \in 0..Len(a1) : (i < Len(a1) /\ a1[i + 1] = a) \/ i = Len(a1)

\* C21: whenever ss(v, w) calls blossom(v, w, a), leader[v] # leader[w], v
\* and w lie in the same structure tree and a is their lowest common ancestor
\* in the structure tree, the first S-node shared by the two upward walks,
\* whichever detection test fired and however the branch lengths differ.
C21_BlossomAtLCA ==
  pc = "scan" =>
    \A w \in First(todo, order) :
      (leader[w] \in DOMAIN S /\ Edge(w).status = "blossom") =>
        /\ leader[curV] # leader[w]
        /\ TreeRoot(curV, Fuel) = TreeRoot(w, Fuel)
        /\ TreeRoot(curV, Fuel) # topless
        /\ Edge(w).val \in SLeaders
        /\ Edge(w).val = FirstShared(leader[curV], leader[w])
        /\ Edge(w).val = FirstShared(leader[w], leader[curV])

\* C21 witness: ss is about to call blossom with an ancestor that is not a
\* root and lies more steps above v than above w, so that it is found as
\* head1 in the path of the other walk.
C21_Witness ==
  /\ pc = "scan"
  /\ \E w \in First(todo, order) :
       /\ leader[w] \in DOMAIN S /\ Edge(w).status = "blossom"
       /\ leader[S[Edge(w).val]] # Edge(w).val
       /\ StepsUp(leader[curV], Edge(w).val) > StepsUp(leader[w], Edge(w).val)
       /\ Edge(w).val = FirstShared(leader[curV], leader[w])

\* C22: addMatch(v, w) is invoked only when the upward walks from v and w
\* end at two different tree roots, two distinct vertices that are unmatched;
\* an S-S edge between two different blossoms of the same tree always leads
\* to a blossom and a false return, never to an augmentation.
C22_AugmentOnlyAcrossTrees ==
  /\ pc = "scan" =>
       \A w \in First(todo, order) :
         leader[w] \in DOMAIN S =>
           /\ Edge(w).status = "augment" =>
                /\ TreeRoot(curV, Fuel) # topless /\ TreeRoot(w, Fuel) # topless
                /\ TreeRoot(curV, Fuel) # TreeRoot(w, Fuel)
                /\ {TreeRoot(curV, Fuel), TreeRoot(w, Fuel)} \cap DOMAIN matching = {}
           /\ (leader[curV] # leader[w] /\ TreeRoot(curV, Fuel) = TreeRoot(w, Fuel)) =>
                Edge(w).status = "blossom"
  /\ pc \in {"alternate1", "alternate2", "addMatch"} =>
       /\ TreeRoot(curV, Fuel) # TreeRoot(curW, Fuel)
       /\ {TreeRoot(curV, Fuel), TreeRoot(curW, Fuel)} \subseteq G.verts \ DOMAIN matching0

\* C22 witness: ss is about to be called for an edge between two different
\* blossoms of one tree whose root is the ancestor, one endpoint lying in the
\* root's blossom and the other below it: one walk is at the root from the
\* first step on while the other has not reached it.
C22_Witness ==
  /\ pc = "scan"
  /\ \E w \in First(todo, order) :
       /\ leader[w] \in DOMAIN S /\ leader[curV] # leader[w]
       /\ TreeRoot(curV, Fuel) = TreeRoot(w, Fuel)
       /\ Edge(w).status = "blossom"
       /\ leader[S[Edge(w).val]] = Edge(w).val
       /\ StepsUp(leader[curV], Edge(w).val) # StepsUp(leader[w], Edge(w).val)

RECURSIVE BranchLeaders(_, _, _)
\* the S-node leaders on the branch from the leader L up to its ancestor a
BranchLeaders(L, a, fuel) ==
  IF L = a \/ fuel = 0 \/ L \notin DOMAIN S \/ S[L] \notin DOMAIN T THEN {L}
  ELSE {L} \cup BranchLeaders(leader[T[S[L]]], a, fuel - 1)

\* the T-vertices on that branch: the tree parents of its leaders below a
BranchTVertices(L, a) == {S[K] : K \in BranchLeaders(L, a, Fuel) \ {a}}

\* a step of the main loop in which ss has called blossom
BlossomStep ==
  /\ pc = "scan" /\ pc' = "scan" /\ todo' # todo
  /\ T' = T /\ unexplored' # unexplored

\* C23: after blossom(v, w, a) has returned, every S-node leader and every
\* T-vertex on the branches from leader[v] up to a and from leader[w] up to
\* a, a included, belong to one union-find group together with the vertices
\* they led; the leader of that group is a key of S whose value is the value
\* S had for a's leader before the call; the groups of the other vertices
\* and the other entries of S are unchanged.
C23_BlossomUnites ==
  [][BlossomStep =>
       \A w \in {CHOOSE x \in todo : x \notin todo'} :
       \A e \in {Edge(w)} :
       \A a \in {leader[e.val]} :
       \A onBranches \in {BranchLeaders(leader[curV], a, Fuel)
                             \cup BranchLeaders(leader[w], a, Fuel)
                             \cup BranchTVertices(leader[curV], a)
                             \cup BranchTVertices(leader[w], a)} :
       \A members \in {{x \in G.verts : leader[x] \in onBranches}} :
       \A L \in {leader'[a]} :
          /\ e.status = "blossom"
          /\ a \in onBranches /\ onBranches \subseteq members
          /\ \A x \in G.verts : leader'[x] = L <=> x \in members
          /\ L \in onBranches
          /\ L \in DOMAIN S' /\ S'[L] = S[a]
          /\ \A x \in G.verts \ members : leader'[x] = leader[x]
          /\ DOMAIN S' = DOMAIN S \cup {L}
          /\ \A k \in DOMAIN S \ {L} : S'[k] = S[k]]_vars

\* C23 witness: a blossom has formed with T-vertices on both branches, in
\* one group whose leader is a key of S, while another S-node keeps a group
\* of its own.
C23_Witness ==
  /\ pc = "scan"
  /\ \E x \in DOMAIN base : \E y \in DOMAIN base :
       /\ base[x] = <<base[y][2], base[y][1]>>
       /\ leader[x] = leader[y]
       /\ leader[x] \in DOMAIN S
       /\ \E z \in G.verts : leader[z] # leader[x] /\ leader[z] \in DOMAIN S

RECURSIVE BranchTSeq(_, _, _)
\* the T-vertices on the branch from the leader L up to its ancestor a, from
\* the bottom up
BranchTSeq(L, a, fuel) ==
  IF L = a \/ fuel = 0 \/ L \notin DOMAIN S \/ S[L] \notin DOMAIN T THEN <<>>
  ELSE <<S[L]>> \o BranchTSeq(leader[T[S[L]]], a, fuel - 1)

\* a step that keeps every base entry, and adds one only by a blossom call
BasesKept ==
  /\ \A x \in DOMAIN base : x \in DOMAIN base' /\ base'[x] = base[x]
  /\ ~BlossomStep => base' = base

\* C24: blossom(v, w, a) sets base[t] = (v, w) for every T-vertex t on the
\* branch from leader[v] up to a and base[t] = (w, v) for every T-vertex t on
\* the branch from leader[w] up to a and appends each such t to unexplored;
\* the base entries of other vertices are untouched, and no step of the phase
\* overwrites or removes a base entry: a T-vertex is absorbed at most once.
C24_BlossomBases ==
  /\ [][BlossomStep =>
          LET w == CHOOSE x \in todo : x \notin todo'
              a == leader[Edge(w).val]
              tv == BranchTSeq(leader[curV], a, Fuel)
              tw == BranchTSeq(leader[w], a, Fuel)
          IN /\ Elems(tv) \cup Elems(tw) \subseteq DOMAIN T
             /\ Elems(tv) \cap Elems(tw) = {}
             /\ (Elems(tv) \cup Elems(tw)) \cap DOMAIN base = {}
             /\ DOMAIN base' = DOMAIN base \cup Elems(tv) \cup Elems(tw)
             /\ \A x \in Elems(tv) : base'[x] = <<curV, w>>
             /\ \A x \in Elems(tw) : base'[x] = <<w, curV>>
             /\ unexplored' = unexplored \o tv \o tw]_vars
  /\ [][(pc \in {"scan", "alternate1", "alternate2", "addMatch"}) => BasesKept]_vars

\* C24 witness: a second blossom has formed around an earlier one: T-vertices
\* of one group have bases from two different edges, the earlier entries as
\* they were written.
C24_Witness ==
  /\ pc = "scan"
  /\ \E x \in DOMAIN base : \E y \in DOMAIN base :
       /\ {base[x][1], base[x][2]} # {base[y][1], base[y][2]}
       /\ leader[x] = leader[y]
  /\ \E x \in DOMAIN base : \E y \in DOMAIN base :
       base[x] = <<base[y][2], base[y][1]>>

\* p is an alternating path of G for the matching m from x to the unmatched
\* vertex r: distinct vertices, an odd number of them, consecutive ones
\* adjacent, the edges by turns in m and not in m, the first one in m
IsAlternatingPathTo(p, m, x, r) ==
  /\ Len(p) % 2 = 1
  /\ p[1] = x /\ p[Len(p)] = r /\ r \notin DOMAIN m
  /\ NoDuplicates(p)
  /\ \A i \in 1..(Len(p) - 1) :
       /\ p[i + 1] \in G.adj[p[i]]
       /\ IF i % 2 = 1
          THEN p[i] \in DOMAIN m /\ m[p[i]] = p[i + 1] /\ m[p[i + 1]] = p[i]
          ELSE p[i] \in DOMAIN m /\ m[p[i]] # p[i + 1]

\* C25: for every vertex v whose leader is in S at the time of an
\* augmentation, alternatingPath(v) returns a sequence of pairwise distinct
\* vertices from v to the unmatched root of v's structure tree, odd in
\* number, consecutive ones adjacent in G, alternating matching edge and
\* non-matching edge from v's matching edge on, also through nested blossoms.
C25_AlternatingPathCorrect ==
  pc = "alternate1" =>
    \A x \in {y \in G.verts : leader[y] \in DOMAIN S} :
      LET p == alternatingPath(matching, T, base, x, topless, Fuel)
      IN /\ p.status = "ok"
         /\ IsAlternatingPathTo(p.val, matching, x, TreeRoot(x, Fuel))

\* C25 witness: at an augmentation a T-vertex absorbed into a blossom has
\* a base whose endpoint is an absorbed T-vertex as well, and its path to the
\* root has five or more vertices.
C25_Witness ==
  /\ pc = "alternate1"
  /\ \E x \in DOMAIN base :
       /\ leader[x] \in DOMAIN S
       /\ {base[x][1], base[x][2]} \cap DOMAIN base # {}
       /\ Len(alternatingPath(matching, T, base, x, topless, Fuel).val) >= 5
       /\ IsAlternatingPathTo(alternatingPath(matching, T, base, x, topless, Fuel).val,
                              matching, x, TreeRoot(x, Fuel))

\* p is the beginning of q
IsPrefix(p, q) == Len(p) <= Len(q) /\ \A i \in 1..Len(p) : p[i] = q[i]

\* the recursive call c of alternatingPath ends at its goal, a T-vertex of the
\* path from its anchor to the root, and has no more calls active than
\* blossoms lie around the goal
CallReachesGoal(c) ==
  LET r == alternatingPathLoop(matching, T, base, <<>>, c.anchor, c.goal, Fuel)
      up == alternatingPath(matching, T, base, c.anchor, topless, Fuel)
  IN /\ c.goal \in DOMAIN T /\ c.goal \in DOMAIN base
     /\ base[c.goal][1] = c.anchor
     /\ r.status = "ok" /\ up.status = "ok"
     /\ r.val # <<>> /\ r.val[Len(r.val)] = c.goal
     /\ Len(r.val) % 2 = 0
     /\ \A i \in 1..Len(r.val) : r.val[i] \in DOMAIN matching
     /\ IsPrefix(r.val, up.val) /\ Len(r.val) < Len(up.val)
     /\ c.depth <= nesting[c.goal]

\* C26: every recursive call alternatingPath(anchor, goal) made while a
\* blossom is expanded, base[goal] = (anchor, other), has for goal a T-vertex
\* on the path from anchor to the root and returns by reaching it, goal being
\* the last vertex returned, never by running into an unmatched root; the
\* depth of the recursion is at most the depth to which blossoms are nested.
C26_RecursionReachesGoal ==
  /\ pc = "alternate1" =>
       \A x \in {y \in G.verts : leader[y] \in DOMAIN S} :
         \A c \in alternatingPathCalls(matching, T, base, x, topless, 0, Fuel) :
           CallReachesGoal(c)
  /\ pc = "alternate2" =>
       \A c \in alternatingPathCalls(matching, T, base, curW, topless, 0, Fuel) :
         CallReachesGoal(c)

\* C26 witness: alternate(v) or alternate(w) of an augmentation makes a
\* recursive call inside a recursive call, and both end at their goals.
C26_Witness ==
  /\ pc \in {"alternate1", "alternate2"}
  /\ \E x \in {curV, curW} :
       LET cs == alternatingPathCalls(matching, T, base, x, topless, 0, Fuel)
       IN /\ \E c \in cs : c.depth = 2
          /\ \A c \in cs : CallReachesGoal(c)

\* the main loop passes an S-S edge between two vertices of one blossom to ss
SameBlossomStep ==
  /\ Scanning /\ todo' # todo
  /\ LET w == CHOOSE x \in todo : x \notin todo'
     IN leader[w] \in DOMAIN S /\ leader[curV] = leader[w]

\* C27: ss(v, w) with leader[v] == leader[w] returns false and changes
\* nothing: S, T, base, unexplored, leader and the matching are as before,
\* and the main loop goes on with the next neighbor.
C27_SameBlossomEdgeIgnored ==
  [][SameBlossomStep =>
       /\ pc' = "scan" /\ nAugmented' = nAugmented
       /\ UNCHANGED <<leader, S, T, base, unexplored, store, curV, current>>]_vars

\* C27 witness: an absorbed T-vertex of a blossom that is not at the root of
\* its tree is being scanned; one neighbor inside the blossom has been passed
\* to ss and the next one to be passed is inside the blossom as well.
C27_Witness ==
  /\ Scanning /\ curV \in DOMAIN base
  /\ leader[S[leader[curV]]] # leader[curV]
  /\ \E w \in First(todo, order) :
       w # curV /\ leader[w] \in DOMAIN S /\ leader[w] = leader[curV]
  /\ \E u \in G.adj[curV] \ todo : leader[u] = leader[curV]

\* the state of a phase that has not looked at any vertex yet
PhaseFresh ==
  /\ DOMAIN leader = G.verts /\ \A v \in G.verts : leader[v] = v
  /\ T = EmptyDict /\ base = EmptyDict
  /\ DOMAIN S = G.verts \ DOMAIN matching
  /\ \A v \in DOMAIN S : S[v] = v
  /\ Elems(unexplored) = DOMAIN S /\ NoDuplicates(unexplored)
  /\ current = 0

\* C28: at the start of every phase leader is fresh, every vertex its own
\* leader, T and base are empty, and S and unexplored hold exactly the
\* vertices unmatched at that time, with S[v] == v.
C28_PhaseStartsFresh ==
  [][(pc = "augment" /\ pc' = "scan") => PhaseFresh']_vars

\* C28 witness: a phase has just started after a phase that augmented, and
\* there are vertices left unmatched.
C28_Witness ==
  /\ pc = "scan" /\ curV = topless /\ nAugmented >= 1
  /\ DOMAIN S # {}
  /\ PhaseFresh

\* the entry of x in the dictionary m, topless for none
EntryOf(m, x) == IF x \in DOMAIN m THEN m[x] ELSE topless

\* C29: in addMatch(v, w) the vertices of alternatingPath(v) and those of
\* alternatingPath(w) are disjoint; so the flips of alternate(v) change no
\* entry of matching, T or base that alternate(w) reads, and the assignments
\* of lines 136-137 overwrite only the stale partner entries of v and w.
C29_PathsDisjoint ==
  /\ [](pc = "alternate1" =>
          LET pv == alternatingPath(matching, T, base, curV, topless, Fuel)
              pw == alternatingPath(matching, T, base, curW, topless, Fuel)
          IN /\ pv.status = "ok" /\ pw.status = "ok"
             /\ Elems(pv.val) \cap Elems(pw.val) = {})
  /\ [][(pc = "alternate1") =>
          LET pw == alternatingPath(matching, T, base, curW, topless, Fuel)
          IN /\ pc' = "alternate2" /\ T' = T /\ base' = base
             /\ \A x \in Elems(pw.val) : EntryOf(matching', x) = EntryOf(matching, x)
             /\ alternatingPath(matching', T', base', curW, topless, Fuel) = pw]_vars
  /\ [](pc = "addMatch" =>
          \A x \in {curV, curW} :
            x \in DOMAIN matching => matching[matching[x]] # x)
  /\ [][(pc = "addMatch") =>
          /\ DOMAIN matching' = DOMAIN matching \cup {curV, curW}
          /\ \A x \in DOMAIN matching \ {curV, curW} : matching'[x] = matching[x]
          /\ \A x \in DOMAIN matching :
               Paired(matching, x) => Paired(matching', x) /\ matching'[x] = matching[x]
          /\ matching'[curV] = curW /\ matching'[curW] = curV]_vars

\* C29 witness: both alternate calls of an addMatch have run in a phase with
\* a blossom, v and w were matched before, and both still carry the entry of
\* their former partner, which is matched to another vertex by now.
C29_Witness ==
  /\ pc = "addMatch" /\ base # EmptyDict
  /\ \A x \in {curV, curW} :
       /\ x \in DOMAIN matching0 /\ x \in DOMAIN matching
       /\ matching[x] = matching0[x]
       /\ matching[matching[x]] # x

\* the main loop labels a neighbor of curV as a T-node, line 199
LabelStep == Scanning /\ T' # T

\* C30: the guard 'leader[u] not in S' of the main loop never fails: when w
\* is newly labelled T, u = matching[w] is not in T, is its own leader and
\* is not a key of S, so u is always added with S[u] == w and appended to
\* unexplored.
C30_GuardNeverFails ==
  [][LabelStep =>
       LET w == CHOOSE x \in todo : x \notin todo'
       IN /\ w \notin DOMAIN T /\ T' = Put(T, w, curV)
          /\ w \in DOMAIN matching
          /\ LET u == matching[w]
             IN /\ u \notin DOMAIN T /\ u \notin DOMAIN T'
                /\ leader[u] = u /\ \A x \in G.verts : leader[x] = u => x = u
                /\ u \notin DOMAIN S /\ leader[u] \notin DOMAIN S
                /\ DOMAIN S' = DOMAIN S \cup {u}
                /\ S'[u] = w /\ \A x \in DOMAIN S : S'[x] = S[x]
                /\ unexplored' = Append(unexplored, u)
                /\ pc' = "scan"]_vars

\* C30 witness: an absorbed T-vertex of a blossom is being scanned and has
\* labelled a neighbor w; the match of w is an S-node with S[u] = w and is
\* the last entry of unexplored.
C30_Witness ==
  /\ Scanning /\ curV \in DOMAIN base
  /\ \E w \in G.adj[curV] \ todo :
       /\ w \in DOMAIN T /\ T[w] = curV
       /\ matching[w] \in DOMAIN S /\ S[matching[w]] = w
       /\ unexplored[Len(unexplored)] = matching[w]

====
